---------------------------- MODULE Spec2Model ----------------------------
(***************************************************************************)
(* A model of src/patch.py, the script that appends the assembled keyboard *)
(* patch to ROUND42.COM and rewrites the game's code to call into it.      *)
(*                                                                         *)
(* A byte buffer (bytes / bytearray) is a record                           *)
(*     [len |-> its length, fill |-> b, mem |-> [offsets -> 0..255]]       *)
(* whose byte at offset i is mem[i] when i is in DOMAIN mem and the filler *)
(* byte b otherwise.  The game image is 60416 or 62338 bytes long; it is   *)
(* kept at its real length and its real offsets, and only the bytes that   *)
(* differ from the filler are stored.                                      *)
(***************************************************************************)
EXTENDS Integers, Sequences, FiniteSets, TLC

VARIABLES
    pc,               \* position in patch_game, or "call"/"return" of a helper
    input,            \* the file input_dir/ROUND42.COM
    game_data,        \* bytearray read from it, patched in place
    game_size,        \* len(game_data) as read
    patch_data,       \* the builder's blob patch.bin
    addr_key_handler, \* address handed to the builder
    footer,           \* the five words read from the blob's last 10 bytes
    err,              \* the exception that ended the run, "none" otherwise
    output,           \* the file output_dir/ROUND42.COM
    writes,           \* byte ranges of game_data written so far, in order
    steps,            \* statements of patch_game completed so far, in order
    run,              \* 1: patching the game; 2: patching the output of run 1
    arg,              \* arguments of the helper under test (helper specs)
    ret               \* its result (helper specs)

vars == <<pc, input, game_data, game_size, patch_data, addr_key_handler,
          footer, err, output, writes, steps, run, arg, ret>>

runVars == <<input, game_data, game_size, patch_data, addr_key_handler,
             footer, err, output, writes, steps, run>>

---------------------------------------------------------------------------
(* Bounds of the helper specifications.                                    *)

\* longest dense buffer searched by the pattern-matcher specification
MaxBufLen == 5
\* longest pattern searched for by the pattern-matcher specification
MaxPatLen == 2
\* widest call site of the relocation-encoder specification (3..MaxWidth)
MaxWidth == 4
\* length of the dense buffer the relocation-encoder specification patches
CallBufLen == 7
\* largest variables size tried next to the paragraph boundary (0..MaxVars)
MaxVars == 17

---------------------------------------------------------------------------
(* Program constants.                                                      *)

ADDR_LAST_SCANCODE == 3998     \* 0x0F9E
ADDR_COM_LOAD == 256           \* 0x100
DS_LOCATION == 11199           \* 0x2BBF
V1_SIZE == 60416               \* 0xEC00
V2_SIZE == 62338               \* 0xF382
NotFound == -1                 \* what bytes.find returns for no occurrence
OP_CALL == 232                 \* 0xE8
OP_NOP == 144                  \* 0x90
WORD_LIMIT == 65536            \* struct's "<H" holds 0 .. 65535
PARAGRAPH == 16                \* 0x10

---------------------------------------------------------------------------
(* Byte buffers.                                                           *)

Min(S) == CHOOSE x \in S : \A y \in S : x <= y

Max2(a, b) == IF a >= b THEN a ELSE b

Min2(a, b) == IF a <= b THEN a ELSE b

\* the buffer holding exactly the bytes of the sequence s
Buf(s) == [len |-> Len(s), fill |-> 0, mem |-> [i \in 0 .. Len(s) - 1 |-> s[i + 1]]]

Byte(d, i) == IF i \in DOMAIN d.mem THEN d.mem[i] ELSE d.fill

\* d[a:b] for 0 <= a, with Python's clamping of both ends to len(d)
Slice(d, a, b) ==
    LET lo == Min2(a, d.len)
        hi == Max2(lo, Min2(b, d.len))
    IN  [k \in 1 .. hi - lo |-> Byte(d, lo + k - 1)]

\* d[a:a+n] = bs for 0 <= a: the slice (clamped to len(d)) is replaced by bs,
\* and what followed it moves when the two lengths differ
SliceAssign(d, a, n, bs) ==
    LET lo == Min2(a, d.len)
        hi == Max2(lo, Min2(a + n, d.len))
        delta == Len(bs) - (hi - lo)
        dom == {i \in DOMAIN d.mem : i < lo}
                 \cup (lo .. lo + Len(bs) - 1)
                 \cup {i + delta : i \in {j \in DOMAIN d.mem : j >= hi}}
    IN  [len |-> d.len + delta,
         fill |-> d.fill,
         mem |-> [i \in dom |->
                    IF i < lo THEN d.mem[i]
                    ELSE IF i < lo + Len(bs) THEN bs[i - lo + 1]
                    ELSE d.mem[i - delta]]]

\* a + b of two bytes objects
Concat(a, b) ==
    [len |-> a.len + b.len,
     fill |-> a.fill,
     mem |-> [i \in DOMAIN a.mem
                     \cup {a.len + j : j \in DOMAIN b.mem}
                     \cup (IF b.fill = a.fill THEN {}
                           ELSE a.len .. a.len + b.len - 1) |->
                IF i < a.len THEN a.mem[i] ELSE Byte(b, i - a.len)]]

\* b"\x90" * n : empty when n <= 0
Repeat(b, n) == [k \in 1 .. n |-> b]

\* struct.pack("<H", v): little-endian unsigned 16 bits, struct.error outside
PackH(v) ==
    [ok |-> v >= 0 /\ v < WORD_LIMIT,
     bytes |-> <<v % 256, (v \div 256) % 256>>]

\* struct.unpack("<H", data[offset : offset + 2])[0]; the callers read inside
\* the buffer, where the slice has its two bytes
read_le_word(data, offset) ==
    LET s == Slice(data, offset, offset + 2)
    IN  s[1] + 256 * s[2]

\* struct.pack_into("<H", data, offset, value): struct.error when the value is
\* not in 0 .. 65535 or the two bytes do not lie inside the buffer
write_le_word(data, offset, value) ==
    LET p == PackH(value)
    IN  IF p.ok /\ offset >= 0 /\ offset + 2 <= data.len
        THEN [ok |-> TRUE, data |-> SliceAssign(data, offset, 2, p.bytes)]
        ELSE [ok |-> FALSE, data |-> data]

---------------------------------------------------------------------------
(* Pattern Matcher.                                                        *)

Matches(data, pattern, i) ==
    /\ i >= 0
    /\ i + Len(pattern) <= data.len
    /\ \A k \in 1 .. Len(pattern) : Byte(data, i + k - 1) = pattern[k]

\* Offsets at which a match can start.  A pattern made of filler bytes alone
\* can match anywhere; any other match covers a stored byte.
Candidates(data, pattern) ==
    IF \A k \in 1 .. Len(pattern) : pattern[k] = data.fill
    THEN 0 .. data.len - Len(pattern)
    ELSE {j - k : j \in DOMAIN data.mem, k \in 0 .. Len(pattern) - 1}

\* data.find(pattern, start) for a non-empty pattern: the lowest offset >= start
\* where the pattern occurs, -1 when there is none
Find(data, pattern, start) ==
    LET occ == {i \in Candidates(data, pattern) :
                    i >= start /\ Matches(data, pattern, i)}
    IN  IF occ = {} THEN NotFound ELSE Min(occ)

find_pattern(data, pattern) ==
    LET loc == Find(data, pattern, 0)
    IN  [ok |-> loc # NotFound, loc |-> loc]

RECURSIVE FindLoopSkip(_, _, _, _)
FindLoopSkip(data, pattern, pos, results) ==
    LET p == Find(data, pattern, pos)
    IN  IF p = NotFound THEN results
        ELSE FindLoopSkip(data, pattern, p + Len(pattern), Append(results, p))

\* find_pattern_all resuming each search after the whole previous match
find_pattern_all_skip(data, pattern) ==
    LET results == FindLoopSkip(data, pattern, 0, <<>>)
    IN  [ok |-> results # <<>>, locs |-> results]

\* the while loop of find_pattern_all, entered with pos and results
RECURSIVE FindLoop(_, _, _, _)
FindLoop(data, pattern, pos, results) ==
    LET p == Find(data, pattern, pos)
    IN  IF p = NotFound THEN results
        ELSE FindLoop(data, pattern, p + 1, Append(results, p))

find_pattern_all(data, pattern) ==
    LET results == FindLoop(data, pattern, 0, <<>>)
    IN  [ok |-> results # <<>>, locs |-> results]

---------------------------------------------------------------------------
(* Relocation Encoder.                                                     *)

patch_call(game_data_, patch_location, size, call_address) ==
    LET offset == call_address - (patch_location + 3)
        p == PackH(offset)
        patch_bytes == <<OP_CALL>> \o p.bytes \o Repeat(OP_NOP, size - 3)
    IN  IF p.ok
        THEN [ok |-> TRUE,
              data |-> SliceAssign(game_data_, patch_location, size, patch_bytes)]
        ELSE [ok |-> FALSE, data |-> game_data_]

---------------------------------------------------------------------------
(* Address-Space Accountant.                                               *)

\* the segment update with the overlap rounded down to whole paragraphs
UpdateDSFloor(game_data_, patch_len, vars_size) ==
    LET end_of_code == ADDR_COM_LOAD + game_data_.len + patch_len + vars_size
        ds_value == read_le_word(game_data_, DS_LOCATION)
        data_segment_addr == ds_value * PARAGRAPH
        overlap == Max2(0, end_of_code - data_segment_addr)
        new_ds_value == ds_value + overlap \div PARAGRAPH
    IN  write_le_word(game_data_, DS_LOCATION, new_ds_value)

\* lines 141-146 of patch_game: get and update the data segment value
UpdateDS(game_data_, patch_len, vars_size) ==
    LET end_of_code == ADDR_COM_LOAD + game_data_.len + patch_len + vars_size
        ds_value == read_le_word(game_data_, DS_LOCATION)
        data_segment_addr == ds_value * PARAGRAPH
        overlap == Max2(0, end_of_code - data_segment_addr)
        new_ds_value == ds_value + (overlap + (PARAGRAPH - 1)) \div PARAGRAPH
    IN  write_le_word(game_data_, DS_LOCATION, new_ds_value)

---------------------------------------------------------------------------
(* Helper specifications: a helper is called once on arguments drawn from  *)
(* a bounded set; pc goes from "call" to "return" and ret holds its result.*)

NoBuf == Buf(<<>>)

NoFooter ==
    [vars_size |-> 0, addr_reset_buffer |-> 0, addr_put_scancode |-> 0,
     addr_get_scancode |-> 0, addr_on_round_start |-> 0]

NoFile == [written |-> FALSE, data |-> NoBuf]

\* the variables of patch_game, idle while a helper is under test
RunIdle ==
    /\ input = NoBuf
    /\ game_data = NoBuf
    /\ game_size = 0
    /\ patch_data = NoBuf
    /\ addr_key_handler = 0
    /\ footer = NoFooter
    /\ err = "none"
    /\ output = NoFile
    /\ writes = <<>>
    /\ steps = <<>>
    /\ run = 1

SeqsUpTo(S, lo, hi) == UNION {[1 .. k -> S] : k \in lo .. hi}

\* the two byte values the searched buffers and patterns are made of
FindAlphabet == {161, 158}

InitFind ==
    /\ pc = "call"
    /\ arg \in [data : {Buf(s) : s \in SeqsUpTo(FindAlphabet, 0, MaxBufLen)},
                pattern : SeqsUpTo(FindAlphabet, 1, MaxPatLen)]
    /\ ret = [all |-> [ok |-> FALSE, locs |-> <<>>],
              one |-> [ok |-> FALSE, loc |-> NotFound]]
    /\ RunIdle

CallFind ==
    /\ pc = "call"
    /\ pc' = "return"
    /\ ret' = [all |-> find_pattern_all(arg.data, arg.pattern),
               one |-> find_pattern(arg.data, arg.pattern)]
    /\ UNCHANGED <<arg, runVars>>

SpecFind == InitFind /\ [][CallFind]_vars

\* target addresses tried for a call site at loc: below, at and above the
\* address after the call, and at both ends of each 16-bit window
CallTargets(loc) ==
    {0, loc + 2, loc + 3, loc + 4, loc + 3 + 255, loc + 3 + 256,
     loc + 3 + 32767, loc + 3 + 32768, 65535, loc + 3 + 65535, loc + 3 + 65536}

InitCall ==
    /\ pc = "call"
    /\ \E loc \in 0 .. CallBufLen - 3, size \in 3 .. MaxWidth :
          /\ loc + size <= CallBufLen
          /\ \E target \in CallTargets(loc) :
                arg = [data |-> Buf(Repeat(17, CallBufLen)), loc |-> loc,
                       size |-> size, target |-> target]
    /\ ret = [ok |-> FALSE, data |-> NoBuf]
    /\ RunIdle

CallPatchCall ==
    /\ pc = "call"
    /\ pc' = "return"
    /\ ret' = patch_call(arg.data, arg.loc, arg.size, arg.target)
    /\ UNCHANGED <<arg, runVars>>

SpecCall == InitCall /\ [][CallPatchCall]_vars

\* an image of the given length holding only the segment word
ImageWithDS(size, ds_value) ==
    [len |-> size, fill |-> 0,
     mem |-> [i \in {DS_LOCATION, DS_LOCATION + 1} |->
                IF i = DS_LOCATION THEN ds_value % 256 ELSE ds_value \div 256]]

\* segment values on both sides of where each image's code ends, and extremes
SegValues == {0, 3792, 3793, 3794, 3912, 3913, 3914, 4096, 65535}

\* blob lengths: a bare footer, a small module, one past the 1 MiB window
SegBlobLens == {10, 1922, 1000000}

InitSeg ==
    /\ pc = "call"
    /\ arg \in [data : {ImageWithDS(n, v) : n \in {V1_SIZE, V2_SIZE}, v \in SegValues},
                patch_len : SegBlobLens,
                vars_size : (0 .. MaxVars) \cup {65535}]
    /\ ret = [ok |-> FALSE, data |-> NoBuf]
    /\ RunIdle

CallUpdateDS ==
    /\ pc = "call"
    /\ pc' = "return"
    /\ ret' = UpdateDS(arg.data, arg.patch_len, arg.vars_size)
    /\ UNCHANGED <<arg, runVars>>

SpecSeg == InitSeg /\ [][CallUpdateDS]_vars

---------------------------------------------------------------------------
(* Cosmetic Patcher.                                                       *)

\* "Round 42 v1.0", "Round-42 v2.0" and "Keyboard fix 1" as code points
LINE_V1 == <<82, 111, 117, 110, 100, 32, 52, 50, 32, 118, 49, 46, 48>>

LINE_V2 == <<82, 111, 117, 110, 100, 45, 52, 50, 32, 118, 50, 46, 48>>

LINE_FIX == <<75, 101, 121, 98, 111, 97, 114, 100, 32, 102, 105, 120, 32, 49>>

\* f"{line:<14}": the line padded with spaces on the right to 14 characters
LJust14(line) == line \o Repeat(32, 14 - Len(line))

\* str.encode("ansi") on the Windows code page 1252, the platform of the
\* codec: code points below 0x80 and from 0xA0 to 0xFF encode to the byte of
\* the same value, the others have no single byte here
AnsiEncode(text) ==
    [ok |-> \A k \in 1 .. Len(text) : text[k] < 128 \/ (text[k] >= 160 /\ text[k] < 256),
     bytes |-> text]

patch_version_box(game_data_, addr_top, addr_line1, addr_line2, addr_bottom, line1, line2) ==
    LET e1 == AnsiEncode(<<179>> \o LJust14(line1) \o <<179>>)
        e2 == AnsiEncode(<<179>> \o LJust14(line2) \o <<179>>)
        d1 == SliceAssign(game_data_, addr_top, 16, <<218>> \o Repeat(196, 14) \o <<191>>)
        d2 == SliceAssign(d1, addr_line1, 16, e1.bytes)
        d3 == SliceAssign(d2, addr_line2, 16, e2.bytes)
        d4 == SliceAssign(d3, addr_bottom, 16, <<192>> \o Repeat(196, 14) \o <<217>>)
    IN  [ok |-> e1.ok /\ e2.ok, data |-> d4]

\* the version branch taking every other size for version 1.0
BoxProfileDefault(size) ==
    IF size = V2_SIZE
    THEN [known |-> TRUE, addrs |-> <<60705, 60740, 60819, 60898>>, line1 |-> LINE_V2]
    ELSE [known |-> TRUE, addrs |-> <<58786, 58865, 58944, 59023>>, line1 |-> LINE_V1]

\* lines 122-131: the arguments of patch_version_box for each known size
\* (0xE5A2, 0xE5F1, 0xE640, 0xE68F and 0xED21, 0xED44, 0xED93, 0xEDE2)
BoxProfile(size) ==
    IF size = V1_SIZE
    THEN [known |-> TRUE, addrs |-> <<58786, 58865, 58944, 59023>>, line1 |-> LINE_V1]
    ELSE IF size = V2_SIZE
    THEN [known |-> TRUE, addrs |-> <<60705, 60740, 60819, 60898>>, line1 |-> LINE_V2]
    ELSE [known |-> FALSE, addrs |-> <<0, 0, 0, 0>>, line1 |-> <<>>]

---------------------------------------------------------------------------
(* Orchestrator: patch_game.                                               *)

addr_bytes == PackH(ADDR_LAST_SCANCODE).bytes

pattern_init_scancode == <<163>> \o addr_bytes          \* a3: mov [last_scancode], ax

pattern_write_scancode == <<137, 30>> \o addr_bytes     \* 89 1e: mov [last_scancode], bx

pattern_read_scancode == <<161>> \o addr_bytes          \* a1: mov ax, [last_scancode]

pattern_round_message == <<233, 167, 1, 185, 8, 0>>     \* e9 a7 01 b9 08 00

pattern_read_up_flag == <<160, 102, 12>>                \* a0 66 0c

pattern_key_handler == <<85, 139, 236, 85, 233, 0, 0>> \o pattern_read_scancode

\* the statements of patch_game in the order the specification lists them:
\* the text box after the call sites
StepAfterBoxLast(p) ==
    CASE p = "Load" -> "FindKeyHandler"
      [] p = "FindKeyHandler" -> "Build"
      [] p = "Build" -> "ParseFooter"
      [] p = "ParseFooter" -> "UpdateDS"
      [] p = "UpdateDS" -> "PatchInit"
      [] p = "PatchInit" -> "PatchWrite"
      [] p = "PatchWrite" -> "PatchReads"
      [] p = "PatchReads" -> "PatchRound"
      [] p = "PatchRound" -> "FixUpFlag"
      [] p = "FixUpFlag" -> "VersionBox"
      [] p = "VersionBox" -> "Write"
      [] OTHER -> "Done"

\* the statement of patch_game that follows statement p (lines 84-172)
StepAfter(p) ==
    CASE p = "Load" -> "FindKeyHandler"
      [] p = "FindKeyHandler" -> "Build"
      [] p = "Build" -> "VersionBox"
      [] p = "VersionBox" -> "ParseFooter"
      [] p = "ParseFooter" -> "UpdateDS"
      [] p = "UpdateDS" -> "PatchInit"
      [] p = "PatchInit" -> "PatchWrite"
      [] p = "PatchWrite" -> "PatchReads"
      [] p = "PatchReads" -> "PatchRound"
      [] p = "PatchRound" -> "FixUpFlag"
      [] p = "FixUpFlag" -> "Write"
      [] OTHER -> "Done"

\* the statement at pc completed: go on to the next one
Advance ==
    /\ pc' = StepAfter(pc)
    /\ steps' = Append(steps, pc)
    /\ err' = err

\* the statement at pc raised e: the exception leaves patch_game and the process
Raise(e) ==
    /\ pc' = "Failed"
    /\ err' = e
    /\ steps' = steps

Wrote(op, at, n) == [op |-> op, at |-> at, n |-> n]

\* lines 85-87
Load ==
    /\ pc = "Load"
    /\ game_data' = input
    /\ game_size' = input.len
    /\ Advance
    /\ UNCHANGED <<input, patch_data, addr_key_handler, footer, output, writes, run, arg, ret>>

\* line 100
FindKeyHandler ==
    /\ pc = "FindKeyHandler"
    /\ LET f == find_pattern(game_data, pattern_key_handler)
       IN  IF f.ok
           THEN addr_key_handler' = f.loc + ADDR_COM_LOAD /\ Advance
           ELSE addr_key_handler' = addr_key_handler /\ Raise("PatternNotFound")
    /\ UNCHANGED <<input, game_data, game_size, patch_data, footer, output, writes, run, arg, ret>>

\* the blob patch.bin that nasm leaves behind: a body and, in its last ten
\* bytes, the five little-endian words of the footer
FooterBytes(f) ==
    PackH(f.vars_size).bytes \o PackH(f.addr_reset_buffer).bytes
        \o PackH(f.addr_put_scancode).bytes \o PackH(f.addr_get_scancode).bytes
        \o PackH(f.addr_on_round_start).bytes

Blank(n) == [len |-> n, fill |-> 0, mem |-> [i \in {} |-> 0]]

RECURSIVE PlaceAll(_, _, _)
PlaceAll(d, offs, bs) ==
    IF offs = {} THEN d
    ELSE LET o == Min(offs)
         IN  PlaceAll(SliceAssign(d, o, Len(bs), bs), offs \ {o}, bs)

MakeBlob(body, f) == SliceAssign(body, body.len - 10, 10, FooterBytes(f))

\* a footer whose routines lie in the module, loaded right after the game
ModuleFooter(size) ==
    [vars_size |-> 16,
     addr_reset_buffer |-> ADDR_COM_LOAD + size,
     addr_put_scancode |-> ADDR_COM_LOAD + size + 3,
     addr_get_scancode |-> ADDR_COM_LOAD + size + 6,
     addr_on_round_start |-> ADDR_COM_LOAD + size + 9]

\* a body that itself holds the six byte patterns patch_game searches for
PatternBody(n) ==
    PlaceAll(PlaceAll(PlaceAll(PlaceAll(PlaceAll(Blank(n),
        {16}, pattern_key_handler),
        {32}, pattern_init_scancode),
        {48}, pattern_write_scancode),
        {64}, pattern_round_message),
        {80}, pattern_read_up_flag)

\* The blobs the builder may leave: a short module and one of 1922 bytes (the
\* difference of the two known image sizes), with routine addresses in the
\* module or all zero, the long one with and without the patterns in its body.
Blobs(size) ==
    {MakeBlob(Blank(26), ModuleFooter(size)),
     MakeBlob(Blank(26), NoFooter),
     MakeBlob(Blank(V2_SIZE - V1_SIZE), ModuleFooter(size)),
     MakeBlob(PatternBody(V2_SIZE - V1_SIZE), ModuleFooter(size))}

\* lines 103-119: nasm builds patch.bin, which is read back; a non-zero exit
\* raises CalledProcessError
Build ==
    /\ pc = "Build"
    /\ \/ \E b \in Blobs(game_size) : patch_data' = b /\ Advance
       \/ patch_data' = patch_data /\ Raise("BuilderFailure")
    /\ UNCHANGED <<input, game_data, game_size, addr_key_handler, footer, output, writes, run, arg, ret>>

\* lines 121-131
VersionBox ==
    /\ pc = "VersionBox"
    /\ LET prof == BoxProfile(game_size)
           r == patch_version_box(game_data, prof.addrs[1], prof.addrs[2],
                                  prof.addrs[3], prof.addrs[4], prof.line1, LINE_FIX)
       IN  IF ~prof.known
           THEN Raise("UnknownVersion") /\ UNCHANGED <<game_data, writes>>
           ELSE IF ~r.ok
           THEN Raise("UnicodeEncodeError") /\ UNCHANGED <<game_data, writes>>
           ELSE /\ game_data' = r.data
                /\ writes' = writes \o [k \in 1 .. 4 |-> Wrote("box", prof.addrs[k], 16)]
                /\ Advance
    /\ UNCHANGED <<input, game_size, patch_data, addr_key_handler, footer, output, run, arg, ret>>

\* lines 133-138
ParseFooter ==
    /\ pc = "ParseFooter"
    /\ footer' = [vars_size |-> read_le_word(patch_data, patch_data.len - 10),
                  addr_reset_buffer |-> read_le_word(patch_data, patch_data.len - 8),
                  addr_put_scancode |-> read_le_word(patch_data, patch_data.len - 6),
                  addr_get_scancode |-> read_le_word(patch_data, patch_data.len - 4),
                  addr_on_round_start |-> read_le_word(patch_data, patch_data.len - 2)]
    /\ Advance
    /\ UNCHANGED <<input, game_data, game_size, patch_data, addr_key_handler, output, writes, run, arg, ret>>

\* lines 140-146
FixDS ==
    /\ pc = "UpdateDS"
    /\ LET r == UpdateDS(game_data, patch_data.len, footer.vars_size)
       IN  IF r.ok
           THEN /\ game_data' = r.data
                /\ writes' = Append(writes, Wrote("ds", DS_LOCATION, 2))
                /\ Advance
           ELSE Raise("struct.error") /\ UNCHANGED <<game_data, writes>>
    /\ UNCHANGED <<input, game_size, patch_data, addr_key_handler, footer, output, run, arg, ret>>

\* PatchSingle going on to the next statement when the pattern is missing
PatchSingleLenient(op, pattern, skip, size, call_address) ==
    LET f == find_pattern(game_data, pattern)
        r == patch_call(game_data, f.loc + skip, size, call_address)
    IN  IF ~f.ok
        THEN Advance /\ UNCHANGED <<game_data, writes>>
        ELSE IF ~r.ok
        THEN Raise("struct.error") /\ UNCHANGED <<game_data, writes>>
        ELSE /\ game_data' = r.data
             /\ writes' = Append(writes, Wrote(op, f.loc + skip, size))
             /\ Advance

\* find_pattern, then patch_call `skip` bytes into the match: the statement
\* pair of lines 149-150, 153-154 and 161-162
PatchSingle(op, pattern, skip, size, call_address) ==
    LET f == find_pattern(game_data, pattern)
        r == patch_call(game_data, f.loc + skip, size, call_address)
    IN  IF ~f.ok
        THEN Raise("PatternNotFound") /\ UNCHANGED <<game_data, writes>>
        ELSE IF ~r.ok
        THEN Raise("struct.error") /\ UNCHANGED <<game_data, writes>>
        ELSE /\ game_data' = r.data
             /\ writes' = Append(writes, Wrote(op, f.loc + skip, size))
             /\ Advance

\* lines 148-150
PatchInit ==
    /\ pc = "PatchInit"
    /\ PatchSingle("init", pattern_init_scancode, 0, 3, footer.addr_reset_buffer)
    /\ UNCHANGED <<input, game_size, patch_data, addr_key_handler, footer, output, run, arg, ret>>

\* lines 152-154
PatchWrite ==
    /\ pc = "PatchWrite"
    /\ PatchSingle("write", pattern_write_scancode, 0, 4, footer.addr_put_scancode)
    /\ UNCHANGED <<input, game_size, patch_data, addr_key_handler, footer, output, run, arg, ret>>

\* the for loop of lines 157-158 from its k-th location on
RECURSIVE PatchEach(_, _, _, _)
PatchEach(data, locs, k, call_address) ==
    IF k > Len(locs) THEN [ok |-> TRUE, data |-> data]
    ELSE LET r == patch_call(data, locs[k], 3, call_address)
         IN  IF r.ok THEN PatchEach(r.data, locs, k + 1, call_address) ELSE r

\* lines 156-158
PatchReads ==
    /\ pc = "PatchReads"
    /\ LET f == find_pattern_all(game_data, pattern_read_scancode)
           r == PatchEach(game_data, f.locs, 1, footer.addr_get_scancode)
       IN  IF ~f.ok
           THEN Raise("PatternNotFound") /\ UNCHANGED <<game_data, writes>>
           ELSE IF ~r.ok
           THEN Raise("struct.error") /\ UNCHANGED <<game_data, writes>>
           ELSE /\ game_data' = r.data
                /\ writes' = writes \o [k \in 1 .. Len(f.locs) |-> Wrote("read", f.locs[k], 3)]
                /\ Advance
    /\ UNCHANGED <<input, game_size, patch_data, addr_key_handler, footer, output, run, arg, ret>>

\* lines 160-162
PatchRound ==
    /\ pc = "PatchRound"
    /\ PatchSingle("round", pattern_round_message, 3, 3, footer.addr_on_round_start)
    /\ UNCHANGED <<input, game_size, patch_data, addr_key_handler, footer, output, run, arg, ret>>

\* lines 164-166: game_data[loc + 7] += 1 raises IndexError past the end and
\* ValueError when the byte is 255
FixUpFlag ==
    /\ pc = "FixUpFlag"
    /\ LET f == find_pattern(game_data, pattern_read_up_flag)
       IN  IF ~f.ok
           THEN Raise("PatternNotFound") /\ UNCHANGED <<game_data, writes>>
           ELSE IF f.loc + 7 >= game_data.len
           THEN Raise("IndexError") /\ UNCHANGED <<game_data, writes>>
           ELSE IF Byte(game_data, f.loc + 7) + 1 > 255
           THEN Raise("ValueError") /\ UNCHANGED <<game_data, writes>>
           ELSE /\ game_data' = SliceAssign(game_data, f.loc + 7, 1,
                                            <<Byte(game_data, f.loc + 7) + 1>>)
                /\ writes' = Append(writes, Wrote("upflag", f.loc + 7, 1))
                /\ Advance
    /\ UNCHANGED <<input, game_size, patch_data, addr_key_handler, footer, output, run, arg, ret>>

\* lines 168-172
Write ==
    /\ pc = "Write"
    /\ output' = [written |-> TRUE, data |-> Concat(game_data, patch_data)]
    /\ Advance
    /\ UNCHANGED <<input, game_data, game_size, patch_data, addr_key_handler, footer, writes, run, arg, ret>>

\* The script is started once more (lines 175-181), on the file the first run
\* wrote and with a fresh output directory.
Rerun ==
    /\ pc = "Done"
    /\ run = 1
    /\ run' = 2
    /\ input' = output.data
    /\ pc' = "Load"
    /\ game_data' = NoBuf
    /\ game_size' = 0
    /\ patch_data' = NoBuf
    /\ addr_key_handler' = 0
    /\ footer' = NoFooter
    /\ err' = "none"
    /\ output' = NoFile
    /\ writes' = <<>>
    /\ steps' = <<>>
    /\ UNCHANGED <<arg, ret>>

\* most read sites an input image holds besides the key handler's own
MaxReads == 2

\* image lengths: the two known versions and one that is neither
ImageSizes == {V1_SIZE, V2_SIZE, 61440}

\* Where an input image may hold each pattern (nowhere, when the set is
\* empty).  58788 lies in the first text-box row of version 1.0, and 761 is
\* seven bytes before the init-write site.
ReadLayouts == {{800 + 16 * k : k \in 0 .. n - 1} : n \in 0 .. MaxReads} \cup {{58788}}

UpFlagLayouts == {{}, {848}, {761}}

Image(size, ds_value, kh, ini, wr, rd, rm, uf) ==
    PlaceAll(PlaceAll(PlaceAll(PlaceAll(PlaceAll(PlaceAll(ImageWithDS(size, ds_value),
        kh, pattern_key_handler),
        ini, pattern_init_scancode),
        wr, pattern_write_scancode),
        rd, pattern_read_scancode),
        rm, pattern_round_message),
        uf, pattern_read_up_flag)

Images ==
    {Image(size, ds_value, kh, ini, wr, rd, rm, uf) :
        size \in ImageSizes, ds_value \in {3792, 8192},
        kh \in {{}, {512}}, ini \in {{}, {768}}, wr \in {{}, {784}},
        rd \in ReadLayouts, rm \in {{}, {832}}, uf \in UpFlagLayouts}

Init ==
    /\ pc = "Load"
    /\ input \in Images
    /\ game_data = NoBuf
    /\ game_size = 0
    /\ patch_data = NoBuf
    /\ addr_key_handler = 0
    /\ footer = NoFooter
    /\ err = "none"
    /\ output = NoFile
    /\ writes = <<>>
    /\ steps = <<>>
    /\ run = 1
    /\ arg = <<>>
    /\ ret = <<>>

Next ==
    \/ Load
    \/ FindKeyHandler
    \/ Build
    \/ VersionBox
    \/ ParseFooter
    \/ FixDS
    \/ PatchInit
    \/ PatchWrite
    \/ PatchReads
    \/ PatchRound
    \/ FixUpFlag
    \/ Write
    \/ Rerun

Spec == Init /\ [][Next]_vars

---------------------------------------------------------------------------
(* Claims about the helpers.                                               *)

\* offsets of the buffer d at which the pattern p occurs, by definition
OccurrencesOf(d, p) ==
    {i \in 0 .. d.len - 1 :
        /\ i + Len(p) <= d.len
        /\ \A k \in 1 .. Len(p) : Byte(d, i + k - 1) = p[k]}

\* C5: find_pattern_all returns, strictly ascending and each once, exactly the
\* offsets at which the (non-empty) pattern occurs, and fails if and only if
\* there is none; find_pattern returns the smallest of them and fails alike.
C5_FindAllExact ==
    pc = "return" =>
        LET occ == OccurrencesOf(arg.data, arg.pattern)
            locs == ret.all.locs
        IN  /\ ret.all.ok <=> occ # {}
            /\ {locs[k] : k \in 1 .. Len(locs)} = occ
            /\ Len(locs) = Cardinality(occ)
            /\ \A k \in 1 .. Len(locs) - 1 : locs[k] < locs[k + 1]
            /\ ret.one.ok <=> occ # {}
            /\ ret.one.ok => ret.one.loc = Min(occ)

\* a search that returned two occurrences overlapping each other
C5_Witness ==
    /\ pc = "return"
    /\ ret.all.ok
    /\ Len(arg.pattern) = 2
    /\ \E k \in 1 .. Len(ret.all.locs) - 1 :
          ret.all.locs[k + 1] = ret.all.locs[k] + 1
    /\ ret.one.loc = ret.all.locs[1]

\* the 16-bit two's complement of a displacement, low byte first
TwosComplementLE(disp) == <<(disp % 65536) % 256, (disp % 65536) \div 256>>

\* the displacement a call instruction's two bytes decode to
DecodeSigned(lo, hi) ==
    IF lo + 256 * hi >= 32768 THEN lo + 256 * hi - 65536 ELSE lo + 256 * hi

\* C4: for every site, width >= 3 and target, patch_call does not fail and
\* overwrites exactly `width` bytes with 0xE8, the little-endian two's
\* complement of target - (site + 3) modulo 2^16, and 0x90 filler; decoding
\* the displacement and adding site + 3 gives the target back whenever the
\* displacement lies in -32768 .. 32767.
C4_PatchCallTotal ==
    pc = "return" =>
        LET disp == arg.target - (arg.loc + 3)
            enc == TwosComplementLE(disp)
        IN  /\ ret.ok
            /\ ret.data.len = arg.data.len
            /\ Byte(ret.data, arg.loc) = OP_CALL
            /\ Byte(ret.data, arg.loc + 1) = enc[1]
            /\ Byte(ret.data, arg.loc + 2) = enc[2]
            /\ \A i \in arg.loc + 3 .. arg.loc + arg.size - 1 :
                  Byte(ret.data, i) = OP_NOP
            /\ \A i \in 0 .. arg.data.len - 1 :
                  (i < arg.loc \/ i >= arg.loc + arg.size)
                      => Byte(ret.data, i) = Byte(arg.data, i)
            /\ (disp >= -32768 /\ disp <= 32767) =>
                  DecodeSigned(Byte(ret.data, arg.loc + 1), Byte(ret.data, arg.loc + 2))
                      + (arg.loc + 3) = arg.target

\* the inputs of the segment update, as the code computes them
SegEndOfCode == ADDR_COM_LOAD + arg.data.len + arg.patch_len + arg.vars_size

SegOld == read_le_word(arg.data, DS_LOCATION)

\* the word v is what the claim asks for: old when nothing overlaps, else the
\* smallest value >= old whose paragraph address reaches end_of_code
SegWordAsClaimed(v) ==
    IF SegEndOfCode <= SegOld * 16
    THEN v = SegOld
    ELSE /\ v >= SegOld
         /\ v * 16 >= SegEndOfCode
         /\ (v - 1) * 16 < SegEndOfCode

\* the asked-for word exists as a 16-bit value
SegFits == SegEndOfCode <= SegOld * 16 \/ SegEndOfCode <= 65535 * 16

\* C3 as stated: for every combination of sizes and old value the word
\* written back is old when end_of_code <= old*16 and otherwise the smallest
\* v >= old with v*16 >= end_of_code.
C3_SegmentWordAlways ==
    pc = "return" =>
        /\ ret.ok
        /\ SegWordAsClaimed(read_le_word(ret.data, DS_LOCATION))

\* C3 amended: the same, for every combination whose result fits in 16 bits;
\* for the others the write raises and the image keeps the old word.
C3_SegmentWordWhenFits ==
    pc = "return" =>
        IF SegFits
        THEN /\ ret.ok
             /\ SegWordAsClaimed(read_le_word(ret.data, DS_LOCATION))
             /\ ret.data.len = arg.data.len
        ELSE /\ ~ret.ok
             /\ ret.data = arg.data

\* an update that had to round a partial paragraph of overlap up
C3_Witness ==
    /\ pc = "return"
    /\ ret.ok
    /\ SegEndOfCode > SegOld * 16
    /\ (SegEndOfCode - SegOld * 16) % 16 # 0
    /\ read_le_word(ret.data, DS_LOCATION) > SegOld

---------------------------------------------------------------------------
(* Claims about patch_game.                                                *)

KnownSizes == {V1_SIZE, V2_SIZE}

\* the statements of patch_game in the order of the source text
CodeOrder ==
    <<"Load", "FindKeyHandler", "Build", "VersionBox", "ParseFooter", "UpdateDS",
      "PatchInit", "PatchWrite", "PatchReads", "PatchRound", "FixUpFlag", "Write">>

\* the same statements in the order Loaded, SitesLocated, ModuleBuilt,
\* FooterParsed, SegmentFixed, SitesPatched, CosmeticsApplied, Written
StatedOrder ==
    <<"Load", "FindKeyHandler", "Build", "ParseFooter", "UpdateDS",
      "PatchInit", "PatchWrite", "PatchReads", "PatchRound", "FixUpFlag",
      "VersionBox", "Write">>

IsPrefix(s, t) == Len(s) <= Len(t) /\ \A k \in 1 .. Len(s) : s[k] = t[k]

Done(step) == \E k \in 1 .. Len(steps) : steps[k] = step

CallOps == {"init", "write", "read", "round"}

\* offsets at which pattern p occurs in buffer d
OccursAt(d, p) == {i \in Candidates(d, p) : Matches(d, p, i)}

\* C1: a run that fails at any step never writes the output file; the write
\* is reached only after every search, the footer parse, the segment fix and
\* all patch writes have succeeded, on an image of a recognized size.
C1_NoOutputUnlessAllSucceeded ==
    /\ (pc = "Failed" \/ err # "none") => ~output.written
    /\ (pc = "Write" \/ output.written) =>
          /\ err = "none"
          /\ game_size \in KnownSizes
          /\ \A k \in 1 .. 11 : Done(CodeOrder[k])
          /\ \A op \in CallOps \cup {"box", "ds", "upflag"} :
                \E k \in 1 .. Len(writes) : writes[k].op = op
    /\ output.written => pc = "Done" /\ steps = CodeOrder

\* a run that failed on a missing pattern after it had patched the text box,
\* the segment word and a call site, and left no output
C1_Witness ==
    /\ pc = "Failed"
    /\ err = "PatternNotFound"
    /\ \E k \in 1 .. Len(writes) : writes[k].op = "init"
    /\ ~output.written

\* the image holds the patterns the claim names: key handler, init write,
\* single write and round message once each, the read at least once
C2_Pre ==
    /\ input.len \in KnownSizes
    /\ Cardinality(OccursAt(input, pattern_key_handler)) = 1
    /\ Cardinality(OccursAt(input, pattern_init_scancode)) = 1
    /\ Cardinality(OccursAt(input, pattern_write_scancode)) = 1
    /\ Cardinality(OccursAt(input, pattern_round_message)) = 1
    /\ OccursAt(input, pattern_read_scancode) # {}

\* C2: on an image of a recognized size with those patterns and any blob the
\* builder left with its 10-byte footer, no step raises and the output
\* written is as long as the image and the blob together.
C2_PatchSucceeds ==
    (run = 1 /\ C2_Pre /\ Done("Build")) =>
        /\ pc # "Failed"
        /\ pc = "Done" =>
              /\ output.written
              /\ output.data.len = input.len + patch_data.len

\* C6: the size check comes first: on an image of no known size the run
\* ends with the unknown-version error before any pattern is searched for
\* and before the builder is invoked.
C6_VersionCheckedFirst ==
    (Done("Load") /\ game_size \notin KnownSizes) =>
        /\ ~Done("FindKeyHandler")
        /\ ~Done("Build")
        /\ pc = "Failed" => err = "UnknownVersion"

\* C7 as stated: after a successful first run, a second run on its output
\* fails and writes no second output.
C7_SecondRunFails ==
    run = 2 => ~output.written /\ pc # "Done"

\* C7 amended: the same whenever image and blob together are not as long as
\* a known version; the second run then never gets past the size check.
C7_SecondRunFailsOnUnknownSize ==
    (run = 2 /\ input.len \notin KnownSizes) =>
        /\ ~output.written
        /\ pc \in {"Load", "FindKeyHandler", "Build", "VersionBox", "Failed"}

\* a second run that found a key handler in its input and was stopped by the
\* size check
C7_Witness ==
    /\ run = 2
    /\ input.len \notin KnownSizes
    /\ pc = "Failed"
    /\ err = "UnknownVersion"

Disjoint(a, b) == a.at + a.n <= b.at \/ b.at + b.n <= a.at

\* C9: in a successful run the byte ranges written into the image are
\* pairwise disjoint, none written twice.
C9_WritesDisjoint ==
    pc = "Done" =>
        \A i \in 1 .. Len(writes), j \in 1 .. Len(writes) :
            i < j => Disjoint(writes[i], writes[j])

\* C10: each call is written where its pattern occurs in the image as it was
\* loaded, and the searches find what they would find in the unmodified
\* image: the first occurrence for the single sites, every occurrence for
\* the reads.
C10_SitesAreOriginalMatches ==
    /\ \A i \in 1 .. Len(writes) :
          /\ writes[i].op = "init" =>
                writes[i].at = Find(input, pattern_init_scancode, 0)
          /\ writes[i].op = "write" =>
                writes[i].at = Find(input, pattern_write_scancode, 0)
          /\ writes[i].op = "read" =>
                writes[i].at \in OccursAt(input, pattern_read_scancode)
          /\ writes[i].op = "round" =>
                writes[i].at = Find(input, pattern_round_message, 0) + 3
    /\ Done("PatchReads") =>
          {writes[i].at : i \in {j \in 1 .. Len(writes) : writes[j].op = "read"}}
              = OccursAt(input, pattern_read_scancode)

============================================================================
